---------------------------- MODULE Spec2Model ----------------------------
(***************************************************************************)
(* domnode: the tree data model (node.py) and the filter pipeline          *)
(* (filters/visibility, filters/semantic, filters/preset).                 *)
(*                                                                         *)
(* The Python object model is kept: every Node, Text, dict and BoundingBox *)
(* is an object of a heap, fields hold object ids, a filter allocates new  *)
(* objects and Node.append writes the child's parent field.  A call of a   *)
(* filter is one action: it takes the heap to the heap the call leaves.    *)
(***************************************************************************)
EXTENDS Integers, Sequences, FiniteSets, TLC

VARIABLES heap,   \* the objects: heap[id] is the object with that id
          root,   \* the root Node the reader built
          call    \* the last call: its operation, arguments, heap before, result

vars == <<heap, root, call>>

\* Python's None, as an object reference and as a filter result.
None == 0

\* Size of the trees the reader hands over (Node and Text objects).
MaxNodes == 3

(***************************************************************************)
(* str methods and float(), on the strings that occur in the model.        *)
(***************************************************************************)
\* str.lower()
Lower(s) ==
    CASE s = "NONE" -> "none"
      [] s = "None" -> "none"
      [] s = "Hidden" -> "hidden"
      [] s = "HIDDEN" -> "hidden"
      [] s = "Presentation" -> "presentation"
      [] s = "PRESENTATION" -> "presentation"
      [] OTHER -> s

\* str.strip(): leading and trailing whitespace removed
Strip(s) ==
    CASE s = " " -> ""
      [] s = "\n " -> ""
      [] s = " OK " -> "OK"
      [] OTHER -> s

\* float(s): the parsed number in tenths, or a ValueError.  float accepts
\* surrounding whitespace and a sign; "" and words are rejected.
Float(s) ==
    CASE s = "0" -> [ok |-> TRUE, tenths |-> 0]
      [] s = "0.0" -> [ok |-> TRUE, tenths |-> 0]
      [] s = "-0" -> [ok |-> TRUE, tenths |-> 0]
      [] s = " 0 " -> [ok |-> TRUE, tenths |-> 0]
      [] s = "0.5" -> [ok |-> TRUE, tenths |-> 5]
      [] s = "1" -> [ok |-> TRUE, tenths |-> 10]
      [] OTHER -> [ok |-> FALSE, tenths |-> 0]

(***************************************************************************)
(* Objects (node.py).                                                      *)
(***************************************************************************)
\* {} and dict literals: a new dict object holding mapping m
NewDict(h, m) == Append(h, [kind |-> "dict", map |-> m])

\* dict.copy(): a new dict object with the same items
DictCopy(h, d) == Append(h, [kind |-> "dict", map |-> h[d].map])

\* BoundingBox(x, y, width, height)
BoundingBox(h, x, y, width, height) ==
    Append(h, [kind |-> "BoundingBox", x |-> x, y |-> y,
               width |-> width, height |-> height])

\* Node(tag=, attrib=, styles=, bounds=, metadata=): children is a new empty
\* list and parent is None
Node(h, tag, attrib, styles, bounds, metadata) ==
    Append(h, [kind |-> "Node", tag |-> tag, attrib |-> attrib,
               styles |-> styles, bounds |-> bounds, metadata |-> metadata,
               children |-> <<>>, parent |-> None])

\* Text(content): parent is None
Text(h, content) == Append(h, [kind |-> "Text", content |-> content, parent |-> None])

\* Node.append(child)
append(h, self, child) ==
    [h EXCEPT ![self].children = Append(@, child), ![child].parent = self]

\* isinstance(child, Text), isinstance(child, Node)
IsText(h, id) == h[id].kind = "Text"
IsNode(h, id) == h[id].kind = "Node"

\* Mutant: bounds=node.bounds forgotten, so that bounds is the default None
Rebuild_without_bounds(h, node, attrib) ==
    LET h1 == DictCopy(h, h[node].styles)
        h2 == DictCopy(h1, h[node].metadata)
    IN  Node(h2, h[node].tag, attrib, Len(h1), None, Len(h2))

\* The rebuild every pass does once a node is kept:
\*   Node(tag=node.tag, attrib=<attrib>, styles=node.styles.copy(),
\*        bounds=node.bounds, metadata=node.metadata.copy())
\* with attrib an already allocated dict.  The new Node is the last object.
Rebuild(h, node, attrib) ==
    LET h1 == DictCopy(h, h[node].styles)
        h2 == DictCopy(h1, h[node].metadata)
    IN  Node(h2, h[node].tag, attrib, Len(h1), h[node].bounds, Len(h2))

\* The same with attrib=node.attrib.copy()
RebuildCopy(h, node) ==
    LET h1 == DictCopy(h, h[node].attrib) IN Rebuild(h1, node, Len(h1))


(***************************************************************************)
(* Visibility passes (filters/visibility).  A pass maps a heap and a Node  *)
(* to the heap it leaves and its result r: a Node, or None.                *)
(***************************************************************************)
\* Mutant: noscript forgotten in the set
NON_VISIBLE_TAGS_short == {"script", "style", "head", "meta", "link", "title"}

NON_VISIBLE_TAGS == {"script", "style", "head", "meta", "link", "title", "noscript"}

RECURSIVE filter_non_visible_tags(_, _), nvt_loop(_, _, _, _)
\* for child in node.children, from the i-th child on (non_visible_tags.py 50-57)
nvt_loop(h, node, new_node, i) ==
    IF i > Len(h[node].children) THEN h
    ELSE LET child == h[node].children[i] IN
         IF IsText(h, child)
         THEN LET h1 == Text(h, h[child].content)
              IN  nvt_loop(append(h1, new_node, Len(h1)), node, new_node, i + 1)
         ELSE IF IsNode(h, child)
         THEN LET f == filter_non_visible_tags(h, child)
              IN  IF f.r # None
                  THEN nvt_loop(append(f.h, new_node, f.r), node, new_node, i + 1)
                  ELSE nvt_loop(f.h, node, new_node, i + 1)
         ELSE nvt_loop(h, node, new_node, i + 1)

filter_non_visible_tags(h, node) ==
    IF h[node].tag \in NON_VISIBLE_TAGS
    THEN [h |-> h, r |-> None]
    ELSE LET h1 == RebuildCopy(h, node)
             new_node == Len(h1)
         IN  [h |-> nvt_loop(h1, node, new_node, 1), r |-> new_node]

\* dict.get(key, default)
Get(h, d, key, default) == IF key \in DOMAIN h[d].map THEN h[d].map[key] ELSE default

\* Mutant: the style values compared without .lower(), as Node.is_visible does
CssHidden_case_sensitive(h, node) ==
    LET display == Get(h, h[node].styles, "display", "")
        visibility == Get(h, h[node].styles, "visibility", "")
        opacity == Get(h, h[node].styles, "opacity", "1")
    IN  \/ display = "none"
        \/ visibility = "hidden"
        \/ (Float(opacity).ok /\ Float(opacity).tenths = 0)
        \/ "hidden" \in DOMAIN h[h[node].attrib].map
        \/ (h[node].tag = "input"
              /\ Lower(Get(h, h[node].attrib, "type", "")) = "hidden")

\* The tests of css_hidden.py 28-49 that return None
CssHidden(h, node) ==
    LET display == Lower(Get(h, h[node].styles, "display", ""))
        visibility == Lower(Get(h, h[node].styles, "visibility", ""))
        opacity == Get(h, h[node].styles, "opacity", "1")
    IN  \/ display = "none"
        \/ visibility = "hidden"
        \/ (Float(opacity).ok /\ Float(opacity).tenths = 0)
        \/ "hidden" \in DOMAIN h[h[node].attrib].map
        \/ (h[node].tag = "input"
              /\ Lower(Get(h, h[node].attrib, "type", "")) = "hidden")

RECURSIVE filter_css_hidden(_, _), css_loop(_, _, _, _)
\* for child in node.children (css_hidden.py 61-67)
css_loop(h, node, new_node, i) ==
    IF i > Len(h[node].children) THEN h
    ELSE LET child == h[node].children[i] IN
         IF IsText(h, child)
         THEN LET h1 == Text(h, h[child].content)
              IN  css_loop(append(h1, new_node, Len(h1)), node, new_node, i + 1)
         ELSE IF IsNode(h, child)
         THEN LET f == filter_css_hidden(h, child)
              IN  IF f.r # None
                  THEN css_loop(append(f.h, new_node, f.r), node, new_node, i + 1)
                  ELSE css_loop(f.h, node, new_node, i + 1)
         ELSE css_loop(h, node, new_node, i + 1)

filter_css_hidden(h, node) ==
    IF CssHidden(h, node)
    THEN [h |-> h, r |-> None]
    ELSE LET h1 == RebuildCopy(h, node)
             new_node == Len(h1)
         IN  [h |-> css_loop(h1, node, new_node, 1), r |-> new_node]

RECURSIVE append_all(_, _, _, _), append_all_reversed(_, _, _, _)
\* Mutant: the list walked from its end, for child in reversed(filtered_children)
append_all_reversed(h, new_node, children, i) ==
    IF i > Len(children) THEN h
    ELSE append_all_reversed(append(h, new_node, children[Len(children) + 1 - i]),
                             new_node, children, i + 1)

\* for child in filtered_children: new_node.append(child)
append_all(h, new_node, children, i) ==
    IF i > Len(children) THEN h
    ELSE append_all(append(h, new_node, children[i]), new_node, children, i + 1)

\* Mutant: any child counts, a Text too
AnyNode_any_child(h, children) == Len(children) > 0

\* any(isinstance(c, Node) for c in filtered_children)
AnyNode(h, children) == \E i \in 1..Len(children) : IsNode(h, children[i])

RECURSIVE filter_zero_dimensions(_, _), zero_loop(_, _, _, _)
\* The first loop of zero_dimensions.py (27-34): the heap and the list
\* filtered_children it leaves
zero_loop(h, node, filtered_children, i) ==
    IF i > Len(h[node].children) THEN [h |-> h, list |-> filtered_children]
    ELSE LET child == h[node].children[i] IN
         IF IsText(h, child)
         THEN LET h1 == Text(h, h[child].content)
              IN  zero_loop(h1, node, Append(filtered_children, Len(h1)), i + 1)
         ELSE IF IsNode(h, child)
         THEN LET f == filter_zero_dimensions(h, child)
              IN  IF f.r # None
                  THEN zero_loop(f.h, node, Append(filtered_children, f.r), i + 1)
                  ELSE zero_loop(f.h, node, filtered_children, i + 1)
         ELSE zero_loop(h, node, filtered_children, i + 1)

\* node.bounds and (node.bounds.width == 0 or node.bounds.height == 0)
HasZeroSize(h, node) ==
    /\ h[node].bounds # None
    /\ (h[h[node].bounds].width = 0 \/ h[h[node].bounds].height = 0)

filter_zero_dimensions(h, node) ==
    LET l == zero_loop(h, node, <<>>, 1) IN
    IF HasZeroSize(l.h, node) /\ ~AnyNode(l.h, l.list)
    THEN [h |-> l.h, r |-> None]
    ELSE LET h1 == RebuildCopy(l.h, node)
             new_node == Len(h1)
         IN  [h |-> append_all(h1, new_node, l.list, 1), r |-> new_node]

(***************************************************************************)
(* Semantic passes (filters/semantic).                                     *)
(***************************************************************************)
SEMANTIC_ATTRIBUTES ==
    {"role", "aria-label", "aria-labelledby", "aria-describedby", "aria-checked",
     "aria-selected", "aria-expanded", "aria-hidden", "aria-disabled", "type",
     "name", "placeholder", "value", "alt", "title", "href", "disabled",
     "checked", "selected"}

\* The keep argument: not given (None), or a set of names
KeepNone == [given |-> FALSE, names |-> {}]
KeepSet(S) == [given |-> TRUE, names |-> S]

\* Mutant: if not keep, which also replaces an empty set
KeepDefault_falsy(keep) ==
    IF ~keep.given \/ keep.names = {} THEN KeepSet(SEMANTIC_ATTRIBUTES) ELSE keep

\* if keep is None: keep = SEMANTIC_ATTRIBUTES
KeepDefault(keep) == IF ~keep.given THEN KeepSet(SEMANTIC_ATTRIBUTES) ELSE keep

\* {k: v for k, v in node.attrib.items() if k in keep}
FilteredAttrib(m, keep) == [k \in DOMAIN m \cap keep.names |-> m[k]]

RECURSIVE filter_attributes(_, _, _), attr_loop(_, _, _, _, _)
\* for child in node.children (attributes.py 63-68): every child is appended
attr_loop(h, node, new_node, keep, i) ==
    IF i > Len(h[node].children) THEN h
    ELSE LET child == h[node].children[i] IN
         IF IsText(h, child)
         THEN LET h1 == Text(h, h[child].content)
              IN  attr_loop(append(h1, new_node, Len(h1)), node, new_node, keep, i + 1)
         ELSE IF IsNode(h, child)
         THEN LET f == filter_attributes(h, child, keep)
              IN  attr_loop(append(f.h, new_node, f.r), node, new_node, keep, i + 1)
         ELSE attr_loop(h, node, new_node, keep, i + 1)

filter_attributes(h, node, keep0) ==
    LET keep == KeepDefault(keep0)
        h1 == NewDict(h, FilteredAttrib(h[h[node].attrib].map, keep))
        h2 == Rebuild(h1, node, Len(h1))
        new_node == Len(h2)
    IN  [h |-> attr_loop(h2, node, new_node, keep, 1), r |-> new_node]

\* Mutant: the role compared without .lower()
IsPresentational_case_sensitive(m) ==
    LET role == IF "role" \in DOMAIN m THEN m["role"] ELSE ""
    IN  role \in {"none", "presentation"}

\* role in ('none', 'presentation'), role = new_attrib.get('role', '').lower()
IsPresentational(m) ==
    LET role == Lower(IF "role" \in DOMAIN m THEN m["role"] ELSE "")
    IN  role \in {"none", "presentation"}

\* Mutant: new_attrib = node.attrib, without .copy()
NewAttrib_alias(h, node) ==
    LET new_attrib == h[node].attrib
    IN  IF IsPresentational(h[new_attrib].map)
        THEN [h |-> [h EXCEPT ![new_attrib].map =
                        [k \in DOMAIN @ \ {"role"} |-> @[k]]],
              d |-> new_attrib]
        ELSE [h |-> h, d |-> new_attrib]

\* new_attrib = node.attrib.copy(), then del new_attrib['role'] when the role
\* is presentational (presentational.py 28-32): the heap and new_attrib
NewAttrib(h, node) ==
    LET h1 == DictCopy(h, h[node].attrib)
        new_attrib == Len(h1)
    IN  IF IsPresentational(h1[new_attrib].map)
        THEN [h |-> [h1 EXCEPT ![new_attrib].map =
                        [k \in DOMAIN @ \ {"role"} |-> @[k]]],
              d |-> new_attrib]
        ELSE [h |-> h1, d |-> new_attrib]

RECURSIVE filter_presentational_roles(_, _), pres_loop(_, _, _, _)
\* for child in node.children (presentational.py 43-48)
pres_loop(h, node, new_node, i) ==
    IF i > Len(h[node].children) THEN h
    ELSE LET child == h[node].children[i] IN
         IF IsText(h, child)
         THEN LET h1 == Text(h, h[child].content)
              IN  pres_loop(append(h1, new_node, Len(h1)), node, new_node, i + 1)
         ELSE IF IsNode(h, child)
         THEN LET f == filter_presentational_roles(h, child)
              IN  pres_loop(append(f.h, new_node, f.r), node, new_node, i + 1)
         ELSE pres_loop(h, node, new_node, i + 1)

filter_presentational_roles(h, node) ==
    LET a == NewAttrib(h, node)
        h2 == Rebuild(a.h, node, a.d)
        new_node == Len(h2)
    IN  [h |-> pres_loop(h2, node, new_node, 1), r |-> new_node]

INTERACTIVE_TAGS == {"a", "button", "input", "select", "textarea", "label"}

\* Mutant: bool(child.content), without .strip()
HasContent_unstripped(s) == s # ""

\* bool(child.content.strip())
HasContent(s) == Strip(s) # ""

\* The test of empty.py 41-47 that returns None
IsEmpty(h, node, filtered_children) ==
    LET has_attributes == DOMAIN h[h[node].attrib].map # {}
        has_children == Len(filtered_children) > 0
        is_interactive == h[node].tag \in INTERACTIVE_TAGS
    IN  ~has_attributes /\ ~has_children /\ ~is_interactive

RECURSIVE filter_empty(_, _), empty_loop(_, _, _, _)
\* The first loop of empty.py (29-38): the heap and filtered_children
empty_loop(h, node, filtered_children, i) ==
    IF i > Len(h[node].children) THEN [h |-> h, list |-> filtered_children]
    ELSE LET child == h[node].children[i] IN
         IF IsText(h, child)
         THEN IF HasContent(h[child].content)
              THEN LET h1 == Text(h, h[child].content)
                   IN  empty_loop(h1, node, Append(filtered_children, Len(h1)), i + 1)
              ELSE empty_loop(h, node, filtered_children, i + 1)
         ELSE IF IsNode(h, child)
         THEN LET f == filter_empty(h, child)
              IN  IF f.r # None
                  THEN empty_loop(f.h, node, Append(filtered_children, f.r), i + 1)
                  ELSE empty_loop(f.h, node, filtered_children, i + 1)
         ELSE empty_loop(h, node, filtered_children, i + 1)

filter_empty(h, node) ==
    LET l == empty_loop(h, node, <<>>, 1) IN
    IF IsEmpty(l.h, node, l.list)
    THEN [h |-> l.h, r |-> None]
    ELSE LET h1 == RebuildCopy(l.h, node)
             new_node == Len(h1)
         IN  [h |-> append_all(h1, new_node, l.list, 1), r |-> new_node]

\* [c for c in new_children if isinstance(c, Node)]
ElementChildren(h, new_children) == SelectSeq(new_children, LAMBDA c : IsNode(h, c))

\* any(c.content.strip() for c in text_children)
HasMeaningfulText(h, new_children) ==
    \E i \in 1..Len(new_children) :
        IsText(h, new_children[i]) /\ HasContent(h[new_children[i]].content)

\* Mutant: the text children are not looked at
IsWrapper_ignores_text(h, node, new_children) ==
    LET has_attributes == DOMAIN h[h[node].attrib].map # {}
    IN  /\ ~has_attributes
        /\ Len(ElementChildren(h, new_children)) = 1

\* The test of wrappers.py 38-48 that promotes the child
IsWrapper(h, node, new_children) ==
    LET has_attributes == DOMAIN h[h[node].attrib].map # {}
    IN  /\ ~has_attributes
        /\ Len(ElementChildren(h, new_children)) = 1
        /\ ~HasMeaningfulText(h, new_children)

RECURSIVE collapse_wrappers(_, _), wrap_loop(_, _, _, _)
\* The first loop of wrappers.py (29-35): the heap and new_children
wrap_loop(h, node, new_children, i) ==
    IF i > Len(h[node].children) THEN [h |-> h, list |-> new_children]
    ELSE LET child == h[node].children[i] IN
         IF IsText(h, child)
         THEN LET h1 == Text(h, h[child].content)
              IN  wrap_loop(h1, node, Append(new_children, Len(h1)), i + 1)
         ELSE IF IsNode(h, child)
         THEN LET f == collapse_wrappers(h, child)
              IN  wrap_loop(f.h, node, Append(new_children, f.r), i + 1)
         ELSE wrap_loop(h, node, new_children, i + 1)

\* Mutant: the new Node is built and its children attached before the test,
\* so that a promoted child still points to the Node that is dropped
collapse_wrappers_build_first(h, node) ==
    LET l == wrap_loop(h, node, <<>>, 1)
        h1 == RebuildCopy(l.h, node)
        new_node == Len(h1)
        h2 == append_all(h1, new_node, l.list, 1)
    IN  IF IsWrapper(h2, node, l.list)
        THEN [h |-> h2, r |-> ElementChildren(h2, l.list)[1]]
        ELSE [h |-> h2, r |-> new_node]

collapse_wrappers(h, node) ==
    LET l == wrap_loop(h, node, <<>>, 1) IN
    IF IsWrapper(l.h, node, l.list)
    THEN [h |-> l.h, r |-> ElementChildren(l.h, l.list)[1]]
    ELSE LET h1 == RebuildCopy(l.h, node)
             new_node == Len(h1)
         IN  [h |-> append_all(h1, new_node, l.list, 1), r |-> new_node]

(***************************************************************************)
(* Presets (filters/preset).  A preset's result also says what it raised   *)
(* ("" when it returned) and lists the functions it called, in order.      *)
(***************************************************************************)
\* The names filters/semantic/__init__.py binds in the package (lines 3-5)
semantic_exports ==
    {"filter_attributes", "SEMANTIC_ATTRIBUTES", "filter_empty",
     "INTERACTIVE_TAGS", "collapse_wrappers"}

\* The modules of the package filters/semantic
semantic_submodules == {"attributes", "empty", "presentational", "wrappers"}

\* from ..semantic import (...) of preset/semantic.py 5-10
semantic_preset_imports ==
    <<"filter_attributes", "filter_empty", "collapse_single_child_wrappers",
      "filter_presentational_roles">>

\* from domnode.filters.semantic import (...) of tests/test_filters_semantic.py 5-11
semantic_test_imports ==
    <<"filter_attributes", "filter_empty", "collapse_single_child_wrappers",
      "filter_presentational_roles", "SEMANTIC_ATTRIBUTES">>

\* from package import name: name is bound in the package or is one of its
\* modules; otherwise the statement raises ImportError
Importable(name, exports, submodules) == name \in exports \/ name \in submodules

\* preset/semantic.py runs to its def filter_semantic
SemanticPresetLoads ==
    \A i \in 1..Len(semantic_preset_imports) :
        Importable(semantic_preset_imports[i], semantic_exports, semantic_submodules)

\* The names filters/visibility/__init__.py binds: the file is not among the
\* sources; tests/test_filters_visibility.py imports these from the package
visibility_exports ==
    {"filter_non_visible_tags", "filter_css_hidden", "filter_zero_dimensions"}

visibility_submodules == {"non_visible_tags", "css_hidden", "zero_dimensions"}

\* from ..visibility import ... of preset/visible.py 5
visible_preset_imports ==
    <<"filter_non_visible_tags", "filter_css_hidden", "filter_zero_dimensions">>

\* preset/visible.py runs to its def filter_visible
VisiblePresetLoads ==
    \A i \in 1..Len(visible_preset_imports) :
        Importable(visible_preset_imports[i], visibility_exports, visibility_submodules)

\* preset/all.py runs to its def filter_all: from .visible import
\* filter_visible, from .semantic import filter_semantic (lines 5-6)
AllPresetLoads == VisiblePresetLoads /\ SemanticPresetLoads

\* A call that returns r, and one that raises
Returned(h, r, trace) == [h |-> h, r |-> r, raised |-> "", trace |-> trace]
Raised(h, error, trace) == [h |-> h, r |-> None, raised |-> error, trace |-> trace]

\* The function a name imported from filters/semantic is bound to, applied
SemanticPass(name, h, node) ==
    CASE name = "filter_attributes" -> filter_attributes(h, node, KeepNone)
      [] name = "filter_empty" -> filter_empty(h, node)
      [] name = "collapse_wrappers" -> collapse_wrappers(h, node)

\* Mutant: the zero-dimension pass run before the CSS pass
filter_visible_zero_first(h, node) ==
    IF ~VisiblePresetLoads THEN Raised(h, "ImportError", <<>>) ELSE
    LET r1 == filter_non_visible_tags(h, node)
        t1 == <<"filter_non_visible_tags">>
    IN  IF r1.r = None THEN Returned(r1.h, None, t1) ELSE
    LET r2 == filter_zero_dimensions(r1.h, r1.r)
        t2 == Append(t1, "filter_zero_dimensions")
    IN  IF r2.r = None THEN Returned(r2.h, None, t2) ELSE
    LET r3 == filter_css_hidden(r2.h, r2.r)
    IN  Returned(r3.h, r3.r, Append(t2, "filter_css_hidden"))

\* preset/visible.py 32-37
filter_visible(h, node) ==
    IF ~VisiblePresetLoads THEN Raised(h, "ImportError", <<>>) ELSE
    LET r1 == filter_non_visible_tags(h, node)
        t1 == <<"filter_non_visible_tags">>
    IN  IF r1.r = None THEN Returned(r1.h, None, t1) ELSE
    LET r2 == filter_css_hidden(r1.h, r1.r)
        t2 == Append(t1, "filter_css_hidden")
    IN  IF r2.r = None THEN Returned(r2.h, None, t2) ELSE
    LET r3 == filter_zero_dimensions(r2.h, r2.r)
    IN  Returned(r3.h, r3.r, Append(t2, "filter_zero_dimensions"))

\* preset/semantic.py 35-39
filter_semantic(h, node) ==
    IF ~SemanticPresetLoads THEN Raised(h, "ImportError", <<>>) ELSE
    LET r1 == SemanticPass("filter_attributes", h, node)
        t1 == <<"filter_attributes">>
    IN  IF r1.r = None THEN Returned(r1.h, None, t1) ELSE
    LET r2 == SemanticPass("filter_presentational_roles", r1.h, r1.r)
        t2 == Append(t1, "filter_presentational_roles")
    IN  IF r2.r = None THEN Returned(r2.h, None, t2) ELSE
    LET r3 == SemanticPass("filter_empty", r2.h, r2.r)
        t3 == Append(t2, "filter_empty")
    IN  IF r3.r = None THEN Returned(r3.h, None, t3) ELSE
    LET r4 == SemanticPass("collapse_single_child_wrappers", r3.h, r3.r)
    IN  Returned(r4.h, r4.r, Append(t3, "collapse_single_child_wrappers"))

\* preset/all.py 34-37
filter_all(h, node) ==
    IF ~AllPresetLoads THEN Raised(h, "ImportError", <<>>) ELSE
    LET v == filter_visible(h, node)
        t1 == <<"filter_visible">> \o v.trace
    IN  IF v.r = None THEN [v EXCEPT !.trace = t1] ELSE
    LET s == filter_semantic(v.h, v.r)
    IN  [s EXCEPT !.trace = t1 \o <<"filter_semantic">> \o s.trace]

(***************************************************************************)
(* The trees a reader hands over.  An input is described by a value: an    *)
(* element is [shape, children], a text is [content]; Build constructs it  *)
(* on the heap the way the readers and the tests do, with Node(...),       *)
(* Text(...) and parent.append(child).                                     *)
(***************************************************************************)
NoMap == [k \in {} |-> ""]
Shape(tag, attrib, styles, bounds) ==
    [tag |-> tag, attrib |-> attrib, styles |-> styles, bounds |-> bounds]

RECURSIVE TreesOfSize(_, _, _), ForestsOfSize(_, _, _)
\* The trees with exactly n Node and Text objects
TreesOfSize(n, Shapes, Contents) ==
    (IF n = 1 THEN {[content |-> c] : c \in Contents} ELSE {})
    \cup {[shape |-> s, children |-> f] :
              s \in Shapes, f \in ForestsOfSize(n - 1, Shapes, Contents)}

\* The child sequences with n objects in all
ForestsOfSize(n, Shapes, Contents) ==
    IF n = 0 THEN {<<>>}
    ELSE UNION {{<<t>> \o f : t \in TreesOfSize(k, Shapes, Contents),
                              f \in ForestsOfSize(n - k, Shapes, Contents)} :
                k \in 1..n}

\* The inputs: trees of at most n objects whose root is an element
Inputs(n, Shapes, Contents) ==
    UNION {{t \in TreesOfSize(k, Shapes, Contents) : "shape" \in DOMAIN t} : k \in 1..n}

RECURSIVE Build(_, _), BuildChildren(_, _, _, _)
BuildChildren(h, parent, children, i) ==
    IF i > Len(children) THEN h
    ELSE LET b == Build(h, children[i])
         IN  BuildChildren(append(b.h, parent, b.r), parent, children, i + 1)

\* metadata carries the reader's backend_node_id, distinct for every element
Build(h, t) ==
    IF "content" \in DOMAIN t
    THEN LET h1 == Text(h, t.content) IN [h |-> h1, r |-> Len(h1)]
    ELSE LET h1 == NewDict(h, t.shape.attrib)
             h2 == NewDict(h1, t.shape.styles)
             h3 == IF t.shape.bounds = <<>> THEN h2
                   ELSE BoundingBox(h2, 0, 0, t.shape.bounds[1], t.shape.bounds[2])
             bounds == IF t.shape.bounds = <<>> THEN None ELSE Len(h3)
             h4 == NewDict(h3, [backend_node_id |-> Len(h3) + 1])
             h5 == Node(h4, t.shape.tag, Len(h1), Len(h2), bounds, Len(h4))
         IN  [h |-> BuildChildren(h5, Len(h5), t.children, 1), r |-> Len(h5)]

NoCall == [op |-> "none", node |-> None, keep |-> KeepNone, pre |-> <<>>,
           r |-> None, raised |-> "", trace |-> <<>>]

InitWith(n, Shapes, Contents) ==
    \E t \in Inputs(n, Shapes, Contents) :
        /\ heap = Build(<<>>, t).h
        /\ root = Build(<<>>, t).r
        /\ call = NoCall

(***************************************************************************)
(* Calls.  Each action is one call of a public function on the root.       *)
(***************************************************************************)
Call(op, keep, f) ==
    /\ call.op = "none"
    /\ heap' = f.h
    /\ call' = [op |-> op, node |-> root, keep |-> keep, pre |-> heap,
                r |-> f.r, raised |-> f.raised, trace |-> f.trace]
    /\ UNCHANGED root

\* The result of a pass, which raises nothing and calls no other function
Pass(f) == Returned(f.h, f.r, <<>>)

\* The keep arguments tried
Keeps == {KeepNone, KeepSet({}), KeepSet({"class"}), KeepSet({"role", "id"})}

Call_filter_non_visible_tags ==
    Call("filter_non_visible_tags", KeepNone, Pass(filter_non_visible_tags(heap, root)))
Call_filter_css_hidden ==
    Call("filter_css_hidden", KeepNone, Pass(filter_css_hidden(heap, root)))
Call_filter_zero_dimensions ==
    Call("filter_zero_dimensions", KeepNone, Pass(filter_zero_dimensions(heap, root)))
Call_filter_attributes ==
    \E keep \in Keeps :
        Call("filter_attributes", keep, Pass(filter_attributes(heap, root, keep)))
Call_filter_presentational_roles ==
    Call("filter_presentational_roles", KeepNone,
         Pass(filter_presentational_roles(heap, root)))
Call_filter_empty ==
    Call("filter_empty", KeepNone, Pass(filter_empty(heap, root)))
Call_collapse_wrappers ==
    Call("collapse_wrappers", KeepNone, Pass(collapse_wrappers(heap, root)))
Call_filter_visible ==
    Call("filter_visible", KeepNone, filter_visible(heap, root))
\* def filter_semantic(node: Node) and def filter_all(node: Node): the
\* parameters of the two presets
filter_semantic_parameters == <<"node">>
filter_all_parameters == <<"node">>

\* A call f(node) or f(node, keep) of a preset whose module loaded: an
\* argument beyond the parameters raises TypeError before the body runs.  f
\* is the outcome of the body, which is the ImportError when the module did
\* not load.
CallPreset(loads, parameters, keep, h, f) ==
    IF loads /\ keep.given /\ Len(parameters) < 2
    THEN Raised(h, "TypeError", <<>>)
    ELSE f

\* The presets called with and without an allow-list of the caller
Call_filter_semantic ==
    \E keep \in Keeps :
        Call("filter_semantic", keep,
             CallPreset(SemanticPresetLoads, filter_semantic_parameters, keep,
                        heap, filter_semantic(heap, root)))
Call_filter_all ==
    \E keep \in Keeps :
        Call("filter_all", keep,
             CallPreset(AllPresetLoads, filter_all_parameters, keep,
                        heap, filter_all(heap, root)))

(***************************************************************************)
(* The pipeline on mixed trees.                                            *)
(***************************************************************************)
Shapes ==
    {Shape("div", NoMap, NoMap, <<>>),
     Shape("div", [role |-> "main", class |-> "c"], NoMap, <<>>),
     Shape("script", [role |-> "script"], NoMap, <<>>),
     Shape("div", [class |-> "hidden"], [display |-> "none"], <<>>),
     Shape("div", NoMap, NoMap, <<0, 0>>),
     Shape("ul", [role |-> "none"], NoMap, <<>>),
     Shape("button", [role |-> "button", class |-> "btn"], NoMap, <<100, 50>>)}

Contents == {" ", "OK"}

Init == InitWith(MaxNodes, Shapes, Contents)

Next ==
    \/ Call_filter_non_visible_tags
    \/ Call_filter_css_hidden
    \/ Call_filter_zero_dimensions
    \/ Call_filter_attributes
    \/ Call_filter_presentational_roles
    \/ Call_filter_empty
    \/ Call_collapse_wrappers
    \/ Call_filter_visible
    \/ Call_filter_semantic
    \/ Call_filter_all

Spec == Init /\ [][Next]_vars

(***************************************************************************)
(* One pass on trees chosen for it.                                        *)
(***************************************************************************)
ShapesTags ==
    {Shape("div", NoMap, NoMap, <<>>),
     Shape("script", [role |-> "script"], NoMap, <<>>),
     Shape("noscript", NoMap, NoMap, <<>>),
     Shape("title", NoMap, NoMap, <<>>),
     Shape("SCRIPT", NoMap, NoMap, <<>>),
     Shape("button", [class |-> "btn"], [display |-> "block"], <<100, 50>>)}

InitNonVisibleTags == InitWith(MaxNodes, ShapesTags, Contents)
SpecNonVisibleTags == InitNonVisibleTags /\ [][Call_filter_non_visible_tags]_vars

ShapesCss ==
    {Shape("div", NoMap, NoMap, <<>>),
     Shape("div", NoMap, [display |-> "None"], <<>>),
     Shape("span", NoMap, [visibility |-> "HIDDEN", opacity |-> "1"], <<>>),
     Shape("div", NoMap, [opacity |-> "0.0"], <<>>),
     Shape("div", NoMap, [opacity |-> " 0 "], <<>>),
     Shape("div", [class |-> "c"], [opacity |-> "abc", display |-> "block"], <<>>),
     Shape("div", [hidden |-> "false"], NoMap, <<>>),
     Shape("input", [type |-> "Hidden"], NoMap, <<>>),
     Shape("button", [type |-> "hidden"], [opacity |-> "0.5"], <<100, 50>>)}

InitCssHidden == InitWith(MaxNodes, ShapesCss, Contents)
SpecCssHidden == InitCssHidden /\ [][Call_filter_css_hidden]_vars

ShapesZero ==
    {Shape("div", NoMap, NoMap, <<>>),
     Shape("div", NoMap, NoMap, <<0, 0>>),
     Shape("div", [class |-> "popup"], NoMap, <<0, 50>>),
     Shape("span", NoMap, NoMap, <<100, 0>>),
     Shape("button", NoMap, [display |-> "block"], <<100, 50>>)}

InitZeroDimensions == InitWith(MaxNodes, ShapesZero, Contents)
SpecZeroDimensions == InitZeroDimensions /\ [][Call_filter_zero_dimensions]_vars

ShapesAttributes ==
    {Shape("div", NoMap, NoMap, <<>>),
     Shape("div", [class |-> "c", role |-> "main"], [display |-> "block"], <<>>),
     Shape("button", [id |-> "b", type |-> "submit"], NoMap, <<100, 50>>),
     Shape("a", [href |-> "/home", class |-> "link"], NoMap, <<>>)}

InitAttributes == InitWith(MaxNodes, ShapesAttributes, Contents)
SpecAttributes == InitAttributes /\ [][Call_filter_attributes]_vars

ShapesRoles ==
    {Shape("div", NoMap, NoMap, <<>>),
     Shape("ul", [role |-> "none"], NoMap, <<>>),
     Shape("li", [role |-> "Presentation", class |-> "x"], [display |-> "block"], <<>>),
     Shape("td", [role |-> "NONE"], NoMap, <<0, 0>>),
     Shape("div", [role |-> "button", id |-> "none"], NoMap, <<>>)}

InitPresentational == InitWith(MaxNodes, ShapesRoles, Contents)
SpecPresentational == InitPresentational /\ [][Call_filter_presentational_roles]_vars

ShapesEmpty ==
    {Shape("div", NoMap, NoMap, <<>>),
     Shape("span", NoMap, [display |-> "block"], <<100, 50>>),
     Shape("div", [class |-> "c"], NoMap, <<>>),
     Shape("button", NoMap, NoMap, <<>>),
     Shape("label", NoMap, NoMap, <<>>)}

ContentsEmpty == {"", " ", "\n ", " OK "}

InitEmpty == InitWith(MaxNodes, ShapesEmpty, ContentsEmpty)
SpecEmpty == InitEmpty /\ [][Call_filter_empty]_vars

ShapesWrappers ==
    {Shape("div", NoMap, NoMap, <<>>),
     Shape("span", NoMap, [display |-> "block"], <<100, 50>>),
     Shape("div", [class |-> "c"], NoMap, <<>>),
     Shape("button", [role |-> "button"], NoMap, <<>>)}

ContentsWrappers == {" ", "\n ", "OK"}

InitWrappers == InitWith(MaxNodes, ShapesWrappers, ContentsWrappers)
SpecWrappers == InitWrappers /\ [][Call_collapse_wrappers]_vars

(***************************************************************************)
(* Node.append and Node.remove called in any order on a few objects.       *)
(* Node.remove is list.remove, which finds the child with ==, and == on   *)
(* Node and Text is the comparison @dataclass generates.                   *)
(***************************************************************************)
\* Number of append and remove calls made on the objects.
MaxCalls == 4

\* Node(tag=tag): attrib, styles and metadata are new empty dicts, bounds is
\* None (the field defaults of node.py 33-39)
NodeOfTag(h, tag) ==
    LET h1 == NewDict(h, NoMap)
        h2 == NewDict(h1, NoMap)
        h3 == NewDict(h2, NoMap)
    IN  Node(h3, tag, Len(h1), Len(h2), None, Len(h3))

\* bounds == bounds of two Nodes: None, or BoundingBox objects compared
\* field by field
BoundsEq(h, a, b) ==
    IF a = None \/ b = None THEN a = b
    ELSE /\ h[a].x = h[b].x
         /\ h[a].y = h[b].y
         /\ h[a].width = h[b].width
         /\ h[a].height = h[b].height

RECURSIVE PyEq(_, _, _, _), ListEq(_, _, _, _, _)
\* a == b where a container compares its items: the same object is equal
\* without a call of __eq__; objects of different classes (None too) are
\* unequal; otherwise the generated __eq__ compares the tuples of fields, item
\* by item up to the first unequal one: (content, parent) for Text, (tag,
\* attrib, styles, bounds, metadata, children, parent) for Node.  stack
\* holds the comparisons in progress: meeting one of them again never ends,
\* which Python reports as RecursionError.
PyEq(h, a, b, stack) ==
    IF a = b THEN "True"
    ELSE IF a = None \/ b = None THEN "False"
    ELSE IF h[a].kind # h[b].kind THEN "False"
    ELSE IF <<a, b>> \in stack THEN "RecursionError"
    ELSE IF IsText(h, a)
    THEN IF h[a].content # h[b].content THEN "False"
         ELSE PyEq(h, h[a].parent, h[b].parent, stack \cup {<<a, b>>})
    ELSE IF \/ h[a].tag # h[b].tag
            \/ h[h[a].attrib].map # h[h[b].attrib].map
            \/ h[h[a].styles].map # h[h[b].styles].map
            \/ ~BoundsEq(h, h[a].bounds, h[b].bounds)
            \/ h[h[a].metadata].map # h[h[b].metadata].map
    THEN "False"
    ELSE LET c == ListEq(h, h[a].children, h[b].children, 1, stack \cup {<<a, b>>})
         IN  IF c # "True" THEN c
             ELSE PyEq(h, h[a].parent, h[b].parent, stack \cup {<<a, b>>})

\* list == list: unequal lengths are unequal at once, otherwise the items
\* are compared in order up to the first unequal pair
ListEq(h, s, t, i, stack) ==
    IF Len(s) # Len(t) THEN "False"
    ELSE IF i > Len(s) THEN "True"
    ELSE LET e == PyEq(h, s[i], t[i], stack)
         IN  IF e = "True" THEN ListEq(h, s, t, i + 1, stack) ELSE e

RECURSIVE list_find(_, _, _, _)
\* The search of list.remove(x) from item i on: the position of the first
\* item equal to x; ValueError when there is none; the error a comparison
\* raises
list_find(h, list, x, i) ==
    IF i > Len(list) THEN [found |-> 0, raised |-> "ValueError"]
    ELSE LET e == PyEq(h, list[i], x, {})
         IN  IF e = "True" THEN [found |-> i, raised |-> ""]
             ELSE IF e = "False" THEN list_find(h, list, x, i + 1)
             ELSE [found |-> 0, raised |-> e]

\* del list[i]
DelItem(list, i) == SubSeq(list, 1, i - 1) \o SubSeq(list, i + 1, Len(list))

\* Node.remove(child): self.children.remove(child), then child.parent = None;
\* an error of list.remove leaves both as they were
remove(h, self, child) ==
    LET s == list_find(h, h[self].children, child, 1)
    IN  IF s.raised # "" THEN [h |-> h, raised |-> s.raised]
        ELSE [h |-> [h EXCEPT ![self].children = DelItem(@, s.found),
                              ![child].parent = None],
              raised |-> ""]

\* The objects made before the calls: two Nodes and two Texts, pairwise equal
\*   a = Node(tag="div"); b = Node(tag="div"); s = Text("a"); t = Text("a")
TreeObjects ==
    LET h1 == NodeOfTag(<<>>, "div")
        h2 == NodeOfTag(h1, "div")
        h3 == Text(h2, "a")
    IN  Text(h3, "a")

NoTreeCall == [op |-> "none", node |-> None, child |-> None, pre |-> <<>>,
               raised |-> "", n |-> 0]

InitTree ==
    /\ heap = TreeObjects
    /\ root = CHOOSE id \in 1..Len(TreeObjects) : IsNode(TreeObjects, id)
    /\ call = NoTreeCall

\* parent.append(child) for any Node parent and any Node or Text child
Call_append ==
    \E parent \in {id \in 1..Len(heap) : IsNode(heap, id)} :
    \E child \in {id \in 1..Len(heap) : IsNode(heap, id) \/ IsText(heap, id)} :
        /\ call.n < MaxCalls
        /\ heap' = append(heap, parent, child)
        /\ call' = [op |-> "append", node |-> parent, child |-> child,
                    pre |-> heap, raised |-> "", n |-> call.n + 1]
        /\ UNCHANGED root

\* parent.remove(child) for any Node parent and any Node or Text child
Call_remove ==
    \E parent \in {id \in 1..Len(heap) : IsNode(heap, id)} :
    \E child \in {id \in 1..Len(heap) : IsNode(heap, id) \/ IsText(heap, id)} :
        LET f == remove(heap, parent, child) IN
        /\ call.n < MaxCalls
        /\ heap' = f.h
        /\ call' = [op |-> "remove", node |-> parent, child |-> child,
                    pre |-> heap, raised |-> f.raised, n |-> call.n + 1]
        /\ UNCHANGED root

NextTree == Call_append \/ Call_remove

SpecTree == InitTree /\ [][NextTree]_vars

(***************************************************************************)
(* Node.get_text (node.py 93-109) called on an element of a built tree.    *)
(***************************************************************************)
RECURSIVE Join(_, _)
\* separator.join(parts)
Join(separator, parts) ==
    IF parts = <<>> THEN ""
    ELSE IF Len(parts) = 1 THEN parts[1]
    ELSE parts[1] \o separator \o Join(separator, Tail(parts))

RECURSIVE get_text(_, _, _), text_parts(_, _, _, _), text_parts_skips_elements(_, _, _, _)
\* Mutant: only the Text children contribute
text_parts_skips_elements(h, self, separator, i) ==
    IF i > Len(h[self].children) THEN <<>>
    ELSE LET child == h[self].children[i] IN
         IF IsText(h, child)
         THEN <<h[child].content>> \o text_parts_skips_elements(h, self, separator, i + 1)
         ELSE text_parts_skips_elements(h, self, separator, i + 1)

\* parts, as the loop over self.children from the i-th child on fills it
text_parts(h, self, separator, i) ==
    IF i > Len(h[self].children) THEN <<>>
    ELSE LET child == h[self].children[i] IN
         IF IsText(h, child)
         THEN <<h[child].content>> \o text_parts(h, self, separator, i + 1)
         ELSE IF IsNode(h, child)
         THEN <<get_text(h, child, separator)>> \o text_parts(h, self, separator, i + 1)
         ELSE text_parts(h, self, separator, i + 1)

get_text(h, self, separator) == Join(separator, text_parts(h, self, separator, 1))

\* The separators tried: the default, and those of the tests
Separators == {"", " ", "\n"}

\* node.get_text(separator) for an element of the tree; nothing is assigned
Call_get_text ==
    \E separator \in Separators :
    \E node \in {id \in 1..Len(heap) : IsNode(heap, id)} :
        /\ call.op = "none"
        /\ heap' = heap
        /\ call' = [op |-> "get_text", node |-> node, separator |-> separator,
                    pre |-> heap, r |-> get_text(heap, node, separator),
                    raised |-> ""]
        /\ UNCHANGED root

ShapesText ==
    {Shape("div", NoMap, NoMap, <<>>),
     Shape("span", [class |-> "c"], NoMap, <<>>)}

ContentsText == {"", "Hello ", "world", "!"}

InitGetText == InitWith(MaxNodes, ShapesText, ContentsText)
SpecGetText == InitGetText /\ [][Call_get_text]_vars

(***************************************************************************)
(* Node.is_visible (node.py 67-85), asked of an element of the tree.       *)
(***************************************************************************)
\* The style values are compared as they are, no lower(); styles.get(key)
\* of a missing key is None, which equals no string
is_visible(h, self) ==
    LET styles == h[h[self].styles].map
        opacity == Get(h, h[self].styles, "opacity", "1")
    IN
    IF "display" \in DOMAIN styles /\ styles["display"] = "none" THEN FALSE
    ELSE IF "visibility" \in DOMAIN styles /\ styles["visibility"] = "hidden" THEN FALSE
    ELSE IF Float(opacity).ok /\ Float(opacity).tenths = 0 THEN FALSE
    ELSE TRUE

\* node.is_visible() for an element of the tree; nothing is assigned
Call_is_visible ==
    \E node \in {id \in 1..Len(heap) : IsNode(heap, id)} :
        /\ call.op = "none"
        /\ heap' = heap
        /\ call' = [op |-> "is_visible", node |-> node, pre |-> heap,
                    r |-> is_visible(heap, node), raised |-> ""]
        /\ UNCHANGED root

ShapesVisible ==
    {Shape("div", NoMap, NoMap, <<>>),
     Shape("div", NoMap, [display |-> "none"], <<>>),
     Shape("div", NoMap, [display |-> "None"], <<>>),
     Shape("span", NoMap, [visibility |-> "hidden"], <<>>),
     Shape("span", NoMap, [visibility |-> "HIDDEN", opacity |-> "1"], <<>>),
     Shape("div", NoMap, [opacity |-> "0.0"], <<>>),
     Shape("div", [class |-> "c"], [opacity |-> "abc", display |-> "block"], <<>>),
     Shape("div", [hidden |-> ""], NoMap, <<>>),
     Shape("input", [type |-> "hidden"], NoMap, <<>>)}

ContentsVisible == {"OK"}

InitIsVisible == InitWith(MaxNodes, ShapesVisible, ContentsVisible)
SpecIsVisible == InitIsVisible /\ [][Call_is_visible]_vars

(***************************************************************************)
(* Reading trees off a heap.                                               *)
(***************************************************************************)
RECURSIVE Under(_, _)
\* The Node and Text objects of the tree rooted at n
Under(h, n) ==
    IF IsNode(h, n)
    THEN {n} \cup UNION {Under(h, h[n].children[i]) : i \in 1..Len(h[n].children)}
    ELSE {n}

Elements(h, n) == {x \in Under(h, n) : IsNode(h, x)}
Texts(h, n) == {x \in Under(h, n) : IsText(h, x)}

Attrib(h, n) == h[h[n].attrib].map
Styles(h, n) == h[h[n].styles].map
Meta(h, n) == h[h[n].metadata].map
Bounds(h, n) ==
    IF h[n].bounds = None THEN <<>>
    ELSE LET b == h[h[n].bounds] IN <<b.x, b.y, b.width, b.height>>

RECURSIVE AncSelf(_, _)
\* n and the elements above it, following parent references
AncSelf(h, n) == IF h[n].parent = None THEN {n} ELSE {n} \cup AncSelf(h, h[n].parent)

RECURSIVE Val(_, _)
\* The tree rooted at n as a value
Val(h, n) ==
    IF IsText(h, n) THEN [content |-> h[n].content]
    ELSE [tag |-> h[n].tag, attrib |-> Attrib(h, n), styles |-> Styles(h, n),
          bounds |-> Bounds(h, n), metadata |-> Meta(h, n),
          children |-> [i \in 1..Len(h[n].children) |-> Val(h, h[n].children[i])]]

\* How a child shows in its parent's child sequence: a Text by its content,
\* an element by its metadata (the reader's identifier)
Key(h, c) == IF IsText(h, c) THEN <<"Text", h[c].content>> ELSE <<"Node", Meta(h, c)>>
Keys(h, children) == [k \in 1..Len(children) |-> Key(h, children[k])]

\* The tree rooted at r in h is the tree rooted at n in pre rebuilt from the
\* elements satisfying Kept and the Text children satisfying KeptText: one
\* output element for every kept input element, with the same tag, styles,
\* bounds and metadata, the attributes NewAttr gives, and as children its
\* kept children in their order
Rebuilt(pre, n, h, r, Kept(_), KeptText(_), NewAttr(_)) ==
    LET In == {i \in Elements(pre, n) : Kept(i)}
        Out == Elements(h, r)
        KeptChild(c) == IF IsText(pre, c) THEN KeptText(c) ELSE Kept(c)
    IN  /\ Meta(h, r) = Meta(pre, n)
        /\ Cardinality(Out) = Cardinality(In)
        /\ \A o \in Out : \E i \in In :
              /\ Meta(h, o) = Meta(pre, i)
              /\ h[o].tag = pre[i].tag
              /\ Styles(h, o) = Styles(pre, i)
              /\ Bounds(h, o) = Bounds(pre, i)
              /\ Attrib(h, o) = NewAttr(i)
              /\ Keys(h, h[o].children) = Keys(pre, SelectSeq(pre[i].children, KeptChild))

Returns == call.raised = ""
Absent == call.raised = "" /\ call.r = None
Present == call.raised = "" /\ call.r # None
Input == call.node
AllText(t) == TRUE
SameAttrib(i) == Attrib(call.pre, i)

(***************************************************************************)
(* Properties.                                                             *)
(***************************************************************************)
\* C1: a call of any pass or preset leaves every object of the input tree as
\* it was: every Node's tag, attrib, styles, bounds, metadata, children and
\* parent, every Text's content and parent, every dict's items.
C1_InputUnchanged ==
    call.op # "none" =>
        /\ Len(heap) >= Len(call.pre)
        /\ \A id \in 1..Len(call.pre) : heap[id] = call.pre[id]

\* A pass has stripped a presentational role from its output while the
\* input element still has it.
C1_Witness ==
    /\ call.op = "filter_presentational_roles"
    /\ Present
    /\ "role" \in DOMAIN Attrib(heap, Input)
    /\ "role" \notin DOMAIN Attrib(heap, call.r)
    /\ Len(heap[Input].children) > 0

\* C2: filter_all is absent when filter_visible is absent, without calling
\* filter_semantic; otherwise it is filter_semantic of filter_visible's result.
C2_FilterAllComposes ==
    call.op = "filter_all" =>
        LET v == filter_visible(call.pre, Input) IN
        IF v.raised = "" /\ v.r = None
        THEN Absent /\ \A k \in 1..Len(call.trace) : call.trace[k] # "filter_semantic"
        ELSE LET s == filter_semantic(v.h, v.r) IN
             /\ call.raised = s.raised
             /\ (call.r = None) <=> (s.r = None)
             /\ call.r # None => Val(heap, call.r) = Val(s.h, s.r)

\* C3: on a tree whose root survives the visibility preset and that has an
\* element with an allow-listed attribute in a subtree the visibility preset
\* removes, filter_all returns, and no element of a returned tree is or lies
\* inside a removed subtree.
C3_NothingFromRemovedSubtrees ==
    LET v == filter_visible(call.pre, Input)
        Visible == IF v.r = None THEN {}
                   ELSE {Meta(v.h, o) : o \in Elements(v.h, v.r)}
        AllowListed(i) == DOMAIN Attrib(call.pre, i) \cap SEMANTIC_ATTRIBUTES # {}
    IN  (/\ call.op = "filter_all"
         /\ v.r # None
         /\ \E i \in Elements(call.pre, Input) :
               Meta(call.pre, i) \notin Visible /\ AllowListed(i))
        => /\ Returns
           /\ call.r # None =>
                 \A o \in Elements(heap, call.r) : Meta(heap, o) \in Visible

\* C4: filter_visible runs filter_non_visible_tags, filter_css_hidden and
\* filter_zero_dimensions in that order, each on the previous result, and
\* stops with absence at the first pass that returns absence.
C4_VisibleSequence ==
    call.op = "filter_visible" =>
        LET a == filter_non_visible_tags(call.pre, Input) IN
        IF a.r = None
        THEN Absent /\ call.trace = <<"filter_non_visible_tags">>
        ELSE LET b == filter_css_hidden(a.h, a.r) IN
        IF b.r = None
        THEN Absent /\ call.trace = <<"filter_non_visible_tags", "filter_css_hidden">>
        ELSE LET c == filter_zero_dimensions(b.h, b.r) IN
             /\ Returns
             /\ call.trace = <<"filter_non_visible_tags", "filter_css_hidden",
                               "filter_zero_dimensions">>
             /\ (call.r = None) <=> (c.r = None)
             /\ call.r # None => Val(heap, call.r) = Val(c.h, c.r)

\* The root passes the tag pass and is CSS-hidden: the preset stops there.
C4_Witness ==
    /\ call.op = "filter_visible"
    /\ Absent
    /\ call.trace = <<"filter_non_visible_tags", "filter_css_hidden">>
    /\ Len(call.pre[Input].children) > 0

C5_Noise == {"script", "style", "head", "meta", "link", "title", "noscript"}
C5_Kept(i) == \A a \in AncSelf(call.pre, i) : call.pre[a].tag \notin C5_Noise

\* C5: filter_non_visible_tags is absent exactly when the root's tag is a
\* noise tag; otherwise its output holds exactly the elements with no noise
\* tag on themselves or above them, unchanged, with all their Text children
\* and their kept children in the original order.
C5_NonVisibleTags ==
    call.op = "filter_non_visible_tags" =>
        /\ Returns
        /\ (call.r = None) <=> (call.pre[Input].tag \in C5_Noise)
        /\ call.r # None =>
              Rebuilt(call.pre, Input, heap, call.r, C5_Kept, AllText, SameAttrib)

\* The root lost its first child, a noscript element, and kept its second.
C5_Witness ==
    /\ call.op = "filter_non_visible_tags"
    /\ Present
    /\ Len(call.pre[Input].children) = 2
    /\ Len(heap[call.r].children) = 1
    /\ call.pre[call.pre[Input].children[1]].kind = "Node"
    /\ call.pre[call.pre[Input].children[1]].tag = "noscript"

C6_Hidden(i) ==
    LET st == Styles(call.pre, i)
        at == Attrib(call.pre, i)
    IN  \/ "display" \in DOMAIN st /\ st["display"] \in {"none", "None", "NONE"}
        \/ "visibility" \in DOMAIN st /\ st["visibility"] \in {"hidden", "Hidden", "HIDDEN"}
        \/ "opacity" \in DOMAIN st /\ st["opacity"] \in {"0", "0.0", "-0", " 0 "}
        \/ "hidden" \in DOMAIN at
        \/ /\ call.pre[i].tag = "input"
           /\ "type" \in DOMAIN at
           /\ at["type"] \in {"hidden", "Hidden", "HIDDEN"}
C6_Kept(i) == \A a \in AncSelf(call.pre, i) : ~C6_Hidden(a)

\* C6: filter_css_hidden removes, with its subtree, exactly an element with
\* display none or visibility hidden (in any letter case), an opacity that
\* parses to 0, a hidden attribute, or tag input with type hidden (in any
\* letter case); it never raises; the rest is kept with its Text children.
C6_CssHidden ==
    call.op = "filter_css_hidden" =>
        /\ Returns
        /\ (call.r = None) <=> C6_Hidden(Input)
        /\ call.r # None =>
              Rebuilt(call.pre, Input, heap, call.r, C6_Kept, AllText, SameAttrib)

\* An element with an unparseable opacity is kept, beside a removed one.
C6_Witness ==
    /\ call.op = "filter_css_hidden"
    /\ Present
    /\ Len(heap[call.r].children) < Len(call.pre[Input].children)
    /\ \E o \in Elements(heap, call.r) :
          "opacity" \in DOMAIN Styles(heap, o) /\ Styles(heap, o)["opacity"] = "abc"

C7_Zero(i) == Bounds(call.pre, i) # <<>> /\ (Bounds(call.pre, i)[3] = 0 \/ Bounds(call.pre, i)[4] = 0)
\* An element survives when it, or an element below it, is not of zero size
C7_Kept(i) == \E d \in Elements(call.pre, i) : ~C7_Zero(d)

\* C7: filter_zero_dimensions removes exactly an element that has bounds
\* with width 0 or height 0 and no surviving Element child (Text children do
\* not count); an element without bounds is never removed and a zero-size
\* element with a surviving Element child is kept with that child.
C7_ZeroDimensions ==
    call.op = "filter_zero_dimensions" =>
        /\ Returns
        /\ (call.r = None) <=> ~C7_Kept(Input)
        /\ call.r # None =>
              Rebuilt(call.pre, Input, heap, call.r, C7_Kept, AllText, SameAttrib)

\* The popup: a zero-size root with a Text child and an Element child is
\* kept with both.
C7_Witness ==
    /\ call.op = "filter_zero_dimensions"
    /\ Present
    /\ C7_Zero(Input)
    /\ Len(heap[call.r].children) = 2
    /\ IsText(heap, heap[call.r].children[1])
    /\ IsNode(heap, heap[call.r].children[2])

C8_Semantic ==
    {"role", "aria-label", "aria-labelledby", "aria-describedby", "aria-checked",
     "aria-selected", "aria-expanded", "aria-hidden", "aria-disabled", "type",
     "name", "placeholder", "value", "alt", "title", "href", "disabled",
     "checked", "selected"}
C8_Keep == IF call.keep.given THEN call.keep.names ELSE C8_Semantic
C8_Attrib(i) ==
    [k \in DOMAIN Attrib(call.pre, i) \cap C8_Keep |-> Attrib(call.pre, i)[k]]
AllKept(i) == TRUE

\* C8: filter_attributes(t, keep) returns a tree with every element and
\* Text of t in place, each element's attributes restricted to keep (the
\* default allow-list when keep is not given, the given set, also an empty
\* one, at every depth), and tag, styles, bounds and metadata unchanged.
C8_Attributes ==
    call.op = "filter_attributes" =>
        /\ Present
        /\ Rebuilt(call.pre, Input, heap, call.r, AllKept, AllText, C8_Attrib)

\* With an empty keep set a descendant's allow-listed attribute is dropped.
C8_Witness ==
    /\ call.op = "filter_attributes"
    /\ call.keep = KeepSet({})
    /\ \E i \in Elements(call.pre, Input) :
          i # Input /\ "role" \in DOMAIN Attrib(call.pre, i)
    /\ \A o \in Elements(heap, call.r) : Attrib(heap, o) = NoMap

C9_Presentational(i) ==
    /\ "role" \in DOMAIN Attrib(call.pre, i)
    /\ Attrib(call.pre, i)["role"] \in
          {"none", "None", "NONE", "presentation", "Presentation", "PRESENTATION"}
C9_Attrib(i) ==
    IF C9_Presentational(i)
    THEN [k \in DOMAIN Attrib(call.pre, i) \ {"role"} |-> Attrib(call.pre, i)[k]]
    ELSE Attrib(call.pre, i)

\* C9: filter_presentational_roles deletes the role attribute of exactly the
\* elements whose role is none or presentation (in any letter case), and
\* keeps every element and Text, every other attribute, tag, styles, bounds,
\* metadata and the child structure.
C9_PresentationalRoles ==
    call.op = "filter_presentational_roles" =>
        /\ Present
        /\ Rebuilt(call.pre, Input, heap, call.r, AllKept, AllText, C9_Attrib)

\* A childless element whose only attribute was role=NONE is still there,
\* now without attributes, below the root.
C9_Witness ==
    /\ call.op = "filter_presentational_roles"
    /\ Present
    /\ \E i \in Elements(call.pre, Input) : \E o \in Elements(heap, call.r) :
          /\ i # Input
          /\ Attrib(call.pre, i) = [role |-> "NONE"]
          /\ Len(call.pre[i].children) = 0
          /\ Meta(heap, o) = Meta(call.pre, i)
          /\ Attrib(heap, o) = NoMap

C10_Interactive == {"a", "button", "input", "select", "textarea", "label"}
C10_KeptText(t) == call.pre[t].content \notin {"", " ", "\n "}
\* An element survives when its subtree holds an element with attributes or
\* an interactive tag, or a Text with content
C10_Kept(i) ==
    \E d \in Under(call.pre, i) :
        IF IsText(call.pre, d) THEN C10_KeptText(d)
        ELSE Attrib(call.pre, d) # NoMap \/ call.pre[d].tag \in C10_Interactive

\* C10: filter_empty removes exactly an element with no attributes, no
\* surviving child (a Text survives when it has content after trimming, an
\* Element when filter_empty keeps it) and a tag that is not interactive; a
\* kept element has exactly its surviving children, in order.
C10_Empty ==
    call.op = "filter_empty" =>
        /\ Returns
        /\ (call.r = None) <=> ~C10_Kept(Input)
        /\ call.r # None =>
              Rebuilt(call.pre, Input, heap, call.r, C10_Kept, C10_KeptText, SameAttrib)

\* An empty button is kept while a whitespace Text and an empty div beside
\* it are dropped.
C10_Witness ==
    /\ call.op = "filter_empty"
    /\ Present
    /\ Len(call.pre[Input].children) = 2
    /\ Len(heap[call.r].children) = 1
    /\ heap[heap[call.r].children[1]].kind = "Node"
    /\ heap[heap[call.r].children[1]].tag = "button"
    /\ Attrib(heap, call.r) = NoMap

C11_Blank(t) == call.pre[t].content \in {"", " ", "\n "}
\* An element without attributes, with exactly one Element child and no
\* Text child with content
C11_Wrapper(i) ==
    /\ Attrib(call.pre, i) = NoMap
    /\ Cardinality({k \in 1..Len(call.pre[i].children) :
                       IsNode(call.pre, call.pre[i].children[k])}) = 1
    /\ \A k \in 1..Len(call.pre[i].children) :
          IsText(call.pre, call.pre[i].children[k])
              => C11_Blank(call.pre[i].children[k])

RECURSIVE C11_Stands(_)
\* The element that stands in the output where input element i stood
C11_Stands(i) ==
    IF C11_Wrapper(i)
    THEN C11_Stands(CHOOSE c \in {call.pre[i].children[k] :
                                     k \in 1..Len(call.pre[i].children)} :
                        IsNode(call.pre, c))
    ELSE i

\* The keys of the children an element that is kept has in the output
C11_Children(i) ==
    [k \in 1..Len(call.pre[i].children) |->
        LET c == call.pre[i].children[k]
        IN  IF IsText(call.pre, c) THEN Key(call.pre, c)
            ELSE Key(call.pre, C11_Stands(c))]

\* C11: collapse_wrappers replaces an element by its single collapsed
\* Element child exactly when the element has no attributes, one Element
\* child and no Text child with content after trimming; whitespace Text of a
\* collapsed element is dropped with it; every other element is kept with its
\* tag, attributes, styles, bounds, metadata, all its Text children and its
\* collapsed Element children, in order.
C11_CollapseWrappers ==
    call.op = "collapse_wrappers" =>
        LET In == {i \in Elements(call.pre, Input) : ~C11_Wrapper(i)}
            Out == Elements(heap, call.r)
        IN  /\ Present
            /\ Meta(heap, call.r) = Meta(call.pre, C11_Stands(Input))
            /\ Cardinality(Out) = Cardinality(In)
            /\ \A o \in Out : \E i \in In :
                  /\ Meta(heap, o) = Meta(call.pre, i)
                  /\ heap[o].tag = call.pre[i].tag
                  /\ Attrib(heap, o) = Attrib(call.pre, i)
                  /\ Styles(heap, o) = Styles(call.pre, i)
                  /\ Bounds(heap, o) = Bounds(call.pre, i)
                  /\ Keys(heap, heap[o].children) = C11_Children(i)

\* An attribute-less root with a whitespace Text and a button was replaced by
\* the button; the Text is gone.
C11_Witness ==
    /\ call.op = "collapse_wrappers"
    /\ Present
    /\ Len(call.pre[Input].children) = 2
    /\ IsText(call.pre, call.pre[Input].children[1])
    /\ heap[call.r].tag = "button"
    /\ Len(heap[call.r].children) = 0

RECURSIVE C12_Chain(_)
\* The attribute-less wrappers nested from element i down, outermost first
C12_Chain(i) ==
    IF C11_Wrapper(i)
    THEN <<i>> \o C12_Chain(CHOOSE c \in {call.pre[i].children[k] :
                                            k \in 1..Len(call.pre[i].children)} :
                               IsNode(call.pre, c))
    ELSE <<>>

\* The element the chain from the root is wrapped around
C12_E == C11_Stands(Input)

\* E survives the pruning of the presets: an interactive element with an
\* allow-listed role that is not presentational, and, for filter_all, E and
\* the wrappers are not noise, not hidden and E is not removed for its size
C12_Survives ==
    /\ call.pre[C12_E].tag \in C10_Interactive
    /\ "role" \in DOMAIN Attrib(call.pre, C12_E)
    /\ ~C9_Presentational(C12_E)
    /\ call.op = "filter_all" =>
          /\ C5_Kept(C12_E)
          /\ C6_Kept(C12_E)
          /\ C7_Kept(C12_E)

\* C12: a chain of n >= 1 attribute-less single-child wrappers around an
\* element E that is not collapsible is reduced to E by one call of
\* collapse_wrappers, and likewise by filter_semantic and filter_all when E
\* survives pruning: the call returns E's rebuilt element.
C12_ChainsCollapse ==
    (/\ call.op \in {"collapse_wrappers", "filter_semantic", "filter_all"}
     /\ Len(C12_Chain(Input)) >= 1
     /\ call.op # "collapse_wrappers" => C12_Survives)
    => /\ Present
       /\ Meta(heap, call.r) = Meta(call.pre, C12_E)
       /\ heap[call.r].tag = call.pre[C12_E].tag
       /\ "role" \in DOMAIN Attrib(call.pre, C12_E) =>
             /\ "role" \in DOMAIN Attrib(heap, call.r)
             /\ Attrib(heap, call.r)["role"] = Attrib(call.pre, C12_E)["role"]
       /\ call.op = "collapse_wrappers" =>
             Attrib(heap, call.r) = Attrib(call.pre, C12_E)

\* C13: filter_semantic runs attribute allow-listing, presentational-role
\* stripping, empty-node pruning and wrapper collapsing in that order, each
\* on the previous result, and returns absence as soon as pruning removes
\* the root.
C13_SemanticSequence ==
    call.op = "filter_semantic" =>
        LET a == filter_attributes(call.pre, Input, KeepNone)
            b == filter_presentational_roles(a.h, a.r)
            c == filter_empty(b.h, b.r)
        IN  IF c.r = None
            THEN Absent
            ELSE LET d == collapse_wrappers(c.h, c.r) IN
                 /\ Present
                 /\ Val(heap, call.r) = Val(d.h, d.r)

\* The Nodes of a heap, and the positions at which c occurs in p's children
NodesOf(h) == {id \in 1..Len(h) : IsNode(h, id)}
Positions(h, p, c) == {k \in 1..Len(h[p].children) : h[p].children[k] = c}
ChildrenOf(h, p) == {h[p].children[k] : k \in 1..Len(h[p].children)}

RECURSIVE Below(_, _, _)
\* The objects reached from the set S by following child sequences, in at
\* most k further steps
Below(h, S, k) ==
    LET T == S \cup UNION {ChildrenOf(h, p) : p \in S \cap NodesOf(h)}
    IN  IF k = 0 \/ T = S THEN S ELSE Below(h, T, k - 1)

\* A tree as the operations are meant to keep it: every object in at most
\* one child sequence, at most once, with its parent reference on the Node
\* that holds it, and no Node below itself
WellFormed(h) ==
    /\ \A p \in NodesOf(h) : \A c \in ChildrenOf(h, p) :
          /\ Cardinality(Positions(h, p, c)) = 1
          /\ h[c].parent = p
    /\ \A c \in 1..Len(h) : (IsNode(h, c) \/ IsText(h, c)) /\ h[c].parent # None
          => c \in ChildrenOf(h, h[c].parent)
    /\ \A p \in NodesOf(h) : p \notin Below(h, ChildrenOf(h, p), Len(h))

\* C14: append puts the child at the end of the parent's child sequence,
\* leaves the earlier children as they were and sets the child's parent
\* reference; remove of a direct child of a well-formed tree takes that very
\* child out of the sequence, clears its parent reference and leaves every
\* other child in place with its parent reference, also when an equal sibling
\* precedes it.
C14_AttachDetach ==
    /\ call.op = "append" =>
          /\ heap[call.node].children = Append(call.pre[call.node].children, call.child)
          /\ heap[call.child].parent = call.node
    /\ (/\ call.op = "remove"
        /\ WellFormed(call.pre)
        /\ call.child \in ChildrenOf(call.pre, call.node)) =>
          /\ call.raised = ""
          /\ heap[call.node].children =
                SelectSeq(call.pre[call.node].children, LAMBDA c : c # call.child)
          /\ heap[call.child].parent = None
          /\ \A c \in ChildrenOf(call.pre, call.node) \ {call.child} :
                heap[c].parent = call.node

\* C15: after any sequence of append and remove calls no object is in the
\* child sequences of two Nodes, none is twice in one child sequence, and no
\* Node is below itself.
C15_SingleOwner ==
    /\ \A p \in NodesOf(heap) : \A q \in NodesOf(heap) :
          p # q => ChildrenOf(heap, p) \cap ChildrenOf(heap, q) = {}
    /\ \A p \in NodesOf(heap) : \A c \in ChildrenOf(heap, p) :
          Cardinality(Positions(heap, p, c)) = 1
    /\ \A p \in NodesOf(heap) : p \notin Below(heap, ChildrenOf(heap, p), Len(heap))

\* C16: remove of an object that is not a direct child of the given parent
\* raises an error and leaves the parent's child sequence and the object's
\* parent reference unchanged.
C16_DetachNonChild ==
    (/\ call.op = "remove"
     /\ call.child \notin ChildrenOf(call.pre, call.node)) =>
        /\ call.raised # ""
        /\ heap[call.node].children = call.pre[call.node].children
        /\ heap[call.child].parent = call.pre[call.child].parent

RECURSIVE C17_DocTexts(_, _), C17_Concat(_)
\* The contents of the Text objects under n in depth-first document order
C17_DocTexts(h, n) ==
    IF IsText(h, n) THEN <<h[n].content>>
    ELSE LET F[k \in 0..Len(h[n].children)] ==
                 IF k = 0 THEN <<>>
                 ELSE F[k - 1] \o C17_DocTexts(h, h[n].children[k])
         IN  F[Len(h[n].children)]
C17_Concat(parts) ==
    IF parts = <<>> THEN "" ELSE C17_Concat(SubSeq(parts, 1, Len(parts) - 1)) \o parts[Len(parts)]

RECURSIVE C17_Contribution(_, _)
\* What a node of a tree value contributes: a Text its content, an element
\* its children's contributions with the separator between neighbours
C17_Contribution(v, sep) ==
    IF "content" \in DOMAIN v THEN v.content
    ELSE LET J[k \in 0..Len(v.children)] ==
                 IF k = 0 THEN ""
                 ELSE J[k - 1] \o (IF k = 1 THEN "" ELSE sep)
                               \o C17_Contribution(v.children[k], sep)
         IN  J[Len(v.children)]

\* C17: get_text(node, separator) changes nothing and returns the
\* separator-join, over the children in order, of a Text child's content
\* and an Element child's own get_text with the same separator; with the
\* empty separator that is the concatenation of the Text contents under the
\* node in depth-first order.
C17_GetText ==
    call.op = "get_text" =>
        /\ heap = call.pre
        /\ call.raised = ""
        /\ call.r = C17_Contribution(Val(call.pre, call.node), call.separator)
        /\ call.separator = "" =>
              call.r = C17_Concat(C17_DocTexts(call.pre, call.node))

\* An element between two Texts contributes the empty string, so the
\* separator shows twice in a row.
C17_Witness ==
    /\ call.op = "get_text"
    /\ call.separator = " "
    /\ Len(heap[call.node].children) = 2
    /\ IsNode(heap, heap[call.node].children[1])
    /\ call.r = " world"

RECURSIVE DocKeys(_, _)
\* The keys of the objects of the tree rooted at n in depth-first document
\* order, n first
DocKeys(h, n) ==
    IF IsText(h, n) THEN <<Key(h, n)>>
    ELSE LET F[k \in 0..Len(h[n].children)] ==
                 IF k = 0 THEN <<Key(h, n)>>
                 ELSE F[k - 1] \o DocKeys(h, h[n].children[k])
         IN  F[Len(h[n].children)]

RECURSIVE IsSubseq(_, _)
\* s is t with some items left out
IsSubseq(s, t) ==
    IF s = <<>> THEN TRUE
    ELSE IF t = <<>> THEN FALSE
    ELSE IF Head(s) = Head(t) THEN IsSubseq(Tail(s), Tail(t))
    ELSE IsSubseq(s, Tail(t))

\* C18: in the output of every pass and preset, what stands under an output
\* element, in document order, is what stood under the input element it was
\* rebuilt from, in the same order, with some of it left out: survivors keep
\* their relative order, and an element is above another in the output only
\* if it was in the input.
C18_OrderAndNesting ==
    (call.op # "none" /\ Present) =>
        \A o \in Elements(heap, call.r) :
            \E i \in Elements(call.pre, Input) :
                /\ Meta(call.pre, i) = Meta(heap, o)
                /\ IsSubseq(DocKeys(heap, o), DocKeys(call.pre, i))

\* Wrapper collapsing has put an element under the element that was its
\* grandparent.
C18_Witness ==
    /\ call.op = "collapse_wrappers"
    /\ Present
    /\ \E o \in Elements(heap, call.r) : \E i \in Elements(call.pre, Input) :
          /\ Meta(call.pre, i) = Meta(heap, o)
          /\ heap[o].parent = call.r
          /\ call.pre[i].parent # Input

\* The passes that write an attribute mapping of their own
C19_AttributePasses == {"filter_attributes", "filter_presentational_roles"}

\* C19: every element in the output of a pass or preset has the tag, the
\* styles, the bounds and the metadata of the input element it was rebuilt
\* from; its attributes are that element's too, except that attribute
\* allow-listing and presentational-role stripping may leave some out.
C19_FieldsPreserved ==
    (call.op # "none" /\ Present) =>
        \A o \in Elements(heap, call.r) :
            \E i \in Elements(call.pre, Input) :
                /\ Meta(heap, o) = Meta(call.pre, i)
                /\ heap[o].tag = call.pre[i].tag
                /\ Styles(heap, o) = Styles(call.pre, i)
                /\ Bounds(heap, o) = Bounds(call.pre, i)
                /\ heap[o].bounds = call.pre[i].bounds
                /\ call.op \notin C19_AttributePasses =>
                      Attrib(heap, o) = Attrib(call.pre, i)
                /\ call.op \in C19_AttributePasses =>
                      /\ DOMAIN Attrib(heap, o) \subseteq DOMAIN Attrib(call.pre, i)
                      /\ \A k \in DOMAIN Attrib(heap, o) :
                            Attrib(heap, o)[k] = Attrib(call.pre, i)[k]

\* Empty-node pruning kept, below the root, an element with styles and an
\* element with bounds.
C19_Witness ==
    /\ call.op = "filter_empty"
    /\ Present
    /\ \E o \in Elements(heap, call.r) \ {call.r} : Styles(heap, o) # NoMap
    /\ \E o \in Elements(heap, call.r) \ {call.r} : Bounds(heap, o) # <<>>

\* The dict objects of the elements of the tree rooted at n
C20_Dicts(h, n) ==
    UNION {{h[o].attrib, h[o].styles, h[o].metadata} : o \in Elements(h, n)}

\* C20: the output of every pass and preset is made of new objects: no Node
\* or Text of it and no attrib, styles or metadata dict of its elements is an
\* object of the heap before the call, and no dict serves two fields or two
\* elements; the returned root has no parent, every child's parent reference
\* is the output element holding it, and no object is held twice.
C20_NewWellFormedTree ==
    (call.op # "none" /\ Present) =>
        LET Out == Under(heap, call.r)
            OutElements == Elements(heap, call.r)
        IN  /\ \A x \in Out : x > Len(call.pre)
            /\ \A d \in C20_Dicts(heap, call.r) : d > Len(call.pre)
            /\ Cardinality(C20_Dicts(heap, call.r)) = 3 * Cardinality(OutElements)
            /\ heap[call.r].parent = None
            /\ \A o \in OutElements : \A k \in 1..Len(heap[o].children) :
                  /\ heap[heap[o].children[k]].parent = o
                  /\ \A j \in 1..Len(heap[o].children) :
                        heap[o].children[j] = heap[o].children[k] => j = k
            /\ \A o \in OutElements : \A q \in OutElements :
                  o # q => ChildrenOf(heap, o) \cap ChildrenOf(heap, q) = {}

\* Wrapper collapsing returned the promoted child of the root, with a child
\* of its own.
C20_Witness ==
    /\ call.op = "collapse_wrappers"
    /\ Present
    /\ Meta(heap, call.r) # Meta(call.pre, Input)
    /\ Len(heap[call.r].children) = 1
    /\ heap[call.r].parent = None

\* C21: on every input tree each pass and each preset returns a rebuilt
\* element or absence; none raises an error.
C21_TotalFunctions ==
    call.op # "none" =>
        /\ call.raised = ""
        /\ call.r # None => IsNode(heap, call.r)

\* C22: filter_semantic produces a tree to which attribute allow-listing
\* (default allow-list) and presentational-role stripping change nothing:
\* each returns a structurally equal tree, no attribute outside the
\* allow-list and no role none or presentation being left in it.
C22_AttributePassesNoOp ==
    call.op = "filter_semantic" =>
        /\ Returns
        /\ call.r # None =>
              LET a == filter_attributes(heap, call.r, KeepNone)
                  p == filter_presentational_roles(heap, call.r)
              IN  /\ Val(a.h, a.r) = Val(heap, call.r)
                  /\ Val(p.h, p.r) = Val(heap, call.r)
                  /\ \A o \in Elements(heap, call.r) :
                        /\ DOMAIN Attrib(heap, o) \subseteq C8_Semantic
                        /\ ~IsPresentational(Attrib(heap, o))

\* The attributes the semantic passes leave of input element i when the
\* caller's allow-list is used
C23_Attrib(i) ==
    LET kept == [k \in DOMAIN Attrib(call.pre, i) \cap call.keep.names |->
                    Attrib(call.pre, i)[k]]
    IN  IF "role" \in DOMAIN kept
           /\ kept["role"] \in {"none", "None", "NONE", "presentation",
                                "Presentation", "PRESENTATION"}
        THEN [k \in DOMAIN kept \ {"role"} |-> kept[k]]
        ELSE kept

\* C23: filter_semantic and filter_all take an allow-list from the caller
\* and, when it is given, return with every element's attributes restricted
\* to the names of that allow-list instead of the default one.
C23_AllowListOverride ==
    (call.op \in {"filter_semantic", "filter_all"} /\ call.keep.given) =>
        /\ Returns
        /\ call.r # None =>
              \A o \in Elements(heap, call.r) :
                  \E i \in Elements(call.pre, Input) :
                      /\ Meta(heap, o) = Meta(call.pre, i)
                      /\ Attrib(heap, o) = C23_Attrib(i)

\* C24: every name the semantic preset and the tests import from the
\* semantic filter group is a name the group exports, so that a call of
\* filter_semantic or filter_all does not fail on an unresolved name and
\* reaches the passes.
C24_NamesResolve ==
    call.op \in {"filter_semantic", "filter_all"} =>
        /\ \A k \in 1..Len(semantic_preset_imports) :
              semantic_preset_imports[k] \in semantic_exports
        /\ \A k \in 1..Len(semantic_test_imports) :
              semantic_test_imports[k] \in semantic_exports
        /\ call.raised # "ImportError"
        /\ call.trace # <<>>

\* The removal test of the CSS pass, on an element o of heap h
C25_Hidden(h, o) ==
    LET st == Styles(h, o)
        at == Attrib(h, o)
    IN  \/ "display" \in DOMAIN st /\ st["display"] \in {"none", "None", "NONE"}
        \/ "visibility" \in DOMAIN st /\ st["visibility"] \in {"hidden", "Hidden", "HIDDEN"}
        \/ "opacity" \in DOMAIN st /\ st["opacity"] \in {"0", "0.0", "-0", " 0 "}
        \/ "hidden" \in DOMAIN at
        \/ /\ h[o].tag = "input"
           /\ "type" \in DOMAIN at
           /\ at["type"] \in {"hidden", "Hidden", "HIDDEN"}
C25_Zero(h, o) == Bounds(h, o) # <<>> /\ (Bounds(h, o)[3] = 0 \/ Bounds(h, o)[4] = 0)
\* The three visibility postconditions on the tree under r
C25_VisiblePost(h, r) ==
    \A o \in Elements(h, r) :
        /\ h[o].tag \notin C5_Noise
        /\ ~C25_Hidden(h, o)
        /\ C25_Zero(h, o) => \E k \in 1..Len(h[o].children) : IsNode(h, h[o].children[k])

\* C25: filter_all returns, and a tree it returns has no element with a
\* noise tag, no CSS-hidden element, and no element of zero width or height
\* without an Element child.
C25_AllKeepsVisibility ==
    call.op = "filter_all" =>
        /\ Returns
        /\ call.r # None => C25_VisiblePost(heap, call.r)

\* C26: a tree returned by filter_visible has no element with a noise tag,
\* no CSS-hidden element and no element of zero width or height without an
\* Element child, and filter_visible applied to it returns an equal tree.
C26_VisibleIdempotent ==
    call.op = "filter_visible" =>
        /\ Returns
        /\ call.r # None =>
              /\ C25_VisiblePost(heap, call.r)
              /\ LET v == filter_visible(heap, call.r)
                 IN  /\ v.raised = ""
                     /\ v.r # None
                     /\ Val(v.h, v.r) = Val(heap, call.r)

\* A zero-size root that lost one child and kept an Element child.
C26_Witness ==
    /\ call.op = "filter_visible"
    /\ Present
    /\ C25_Zero(heap, call.r)
    /\ Len(heap[call.r].children) = 1
    /\ Len(call.pre[Input].children) = 2
    /\ IsNode(heap, heap[call.r].children[1])

\* C27: filter_semantic returns, and when its result is present,
\* filter_semantic applied to that result returns a structurally equal tree.
C27_SemanticIdempotent ==
    call.op = "filter_semantic" =>
        /\ Returns
        /\ call.r # None =>
              LET s == filter_semantic(heap, call.r)
              IN  /\ s.raised = ""
                  /\ s.r # None
                  /\ Val(s.h, s.r) = Val(heap, call.r)

\* The contents, in depth-first order, of the Text objects under n whose
\* content is not empty after trimming; none for an absent tree
C28_Meaningful(h, n) ==
    IF n = None THEN <<>>
    ELSE SelectSeq(C17_DocTexts(h, n), LAMBDA c : c \notin {"", " ", "\n "})
C28_TextPasses == {"filter_semantic", "filter_empty", "collapse_wrappers"}

\* C28: filter_semantic, filter_empty and collapse_wrappers return, the
\* output holds the same sequence of meaningful Text contents as the input,
\* and the output is absent only if the input holds no meaningful Text.
C28_MeaningfulTextKept ==
    call.op \in C28_TextPasses =>
        /\ Returns
        /\ C28_Meaningful(heap, call.r) = C28_Meaningful(call.pre, Input)
        /\ call.r = None => C28_Meaningful(call.pre, Input) = <<>>

\* C29: for an element without a hidden attribute that is not an input of
\* type hidden, is_visible() returns False exactly when filter_css_hidden
\* removes the element.
C29_IsVisibleAgrees ==
    (/\ call.op = "is_visible"
     /\ "hidden" \notin DOMAIN Attrib(call.pre, call.node)
     /\ ~(/\ call.pre[call.node].tag = "input"
          /\ "type" \in DOMAIN Attrib(call.pre, call.node)
          /\ Attrib(call.pre, call.node)["type"] \in {"hidden", "Hidden", "HIDDEN"}))
    => ((call.r = FALSE) <=> (filter_css_hidden(call.pre, call.node).r = None))

\* C30: after any sequence of append and remove calls, an object's parent
\* reference is the Node p exactly when the object occurs in p's child
\* sequence; an object whose parent reference is None occurs in none.
C30_ParentsAgree ==
    \A c \in {id \in 1..Len(heap) : IsNode(heap, id) \/ IsText(heap, id)} :
        \A p \in NodesOf(heap) :
            (heap[c].parent = p) <=> (c \in ChildrenOf(heap, p))

=============================================================================
